---- MODULE Spec2Model ----
(***************************************************************************)
(* Model of rebasebot/github.py: the GithubAppProvider authentication      *)
(* provider (constructor, token getters, the two memoized client           *)
(* accessors and the installation-token exchange).                         *)
(*                                                                         *)
(* Python values of type Optional[T] are sequences of length at most one:  *)
(* None is <<>>, a value v is <<v>>.                                       *)
(***************************************************************************)
EXTENDS Integers, Sequences, FiniteSets, TLC

VARIABLES
    has_lock,                \* the interpreter's cached_property serialises the getter (3.9-3.11) or not (3.12+)
    overlap,                 \* callers may run concurrently (threads) or one call at a time
    phase,                   \* "start" | "failed" | "ready": outcome of GithubAppProvider(...)
    args,                    \* the keyword arguments the constructor was called with
    ctor_err,                \* the error the constructor raised, "" when none
    user_auth,               \* self.user_auth
    user_token,              \* self.user_token
    _app_credentials,        \* self._app_credentials
    _cloner_app_credentials, \* self._cloner_app_credentials
    _app_token,              \* self._app_token
    _cloner_token,           \* self._cloner_token
    cache,                   \* instance __dict__ entries written by cached_property, per accessor
    lock,                    \* the cached_property lock of each accessor: 0 or the holding thread
    pc,                      \* position of each thread inside an accessor call
    acc,                     \* the accessor each thread is executing, "" when idle
    credentials,             \* _github_login_app local: credentials
    installation,            \* _github_login_app local: installation.id
    access_token,            \* _github_login_app local: access_token.token
    mint_id,                 \* the installation id the running call passed to gi.get_access_token
    gh_app,                  \* the Github instance built by the running call
    call_lookups,            \* installation lookups made so far by the running call of each thread
    call_mints,              \* token mints made so far by the running call of each thread
    result,                  \* what the last completed operation returned or raised
    lookups,                 \* number of gi.get_repo_installation calls made on behalf of each accessor
    mints,                   \* number of gi.get_access_token calls made on behalf of each accessor
    failed,                  \* number of exchanges of each accessor that raised
    exchanged,               \* number of exchanges of each accessor that completed and were stored
    returned,                \* the handles each accessor has returned so far
    hits,                    \* number of calls of each accessor answered from the cache
    last_minted,             \* the token minted by the last completed exchange of each accessor
    nhandles,                \* number of Github instances constructed so far
    ntokens,                 \* number of installation tokens minted so far
    ncalls,                  \* number of accessor calls started so far
    repository_string,       \* the argument parse_github_branch was called with
    parse_result             \* what that call returned or raised

vars == <<has_lock, overlap, phase, args, ctor_err, user_auth, user_token,
          _app_credentials, _cloner_app_credentials, _app_token, _cloner_token,
          cache, lock, pc, acc, credentials, installation, access_token, mint_id,
          gh_app, call_lookups, call_mints, result, lookups, mints, failed, exchanged,
          returned, hits, last_minted,
          nhandles, ntokens, ncalls, repository_string, parse_result>>

provider == <<user_auth, user_token, _app_credentials, _cloner_app_credentials>>
tokens   == <<_app_token, _cloner_token>>
locals   == <<credentials, installation, access_token, mint_id, gh_app, call_lookups, call_mints>>
counters == <<lookups, mints, failed, exchanged, nhandles, ntokens>>
build    == <<has_lock, overlap>>
parser   == <<repository_string, parse_result>>
ctor     == <<phase, args, ctor_err>>

\* ---------------------------------------------------------------- bounds
NumThreads == 2
MaxCalls == 3
MaxLen == 5

Threads == 1 .. NumThreads

\* ---------------------------------------------------------------- values
None == <<>>
Some(v) == <<v>>

Slots == {"github_app", "github_cloner_app"}
Getters == {"get_app_token", "get_cloner_token"}

\* GitHubBranch values (url is derived from ns and name)
GitHubBranch(ns, name) ==
    [url |-> "https://github.com/" \o ns \o "/" \o name, ns |-> ns, name |-> name, branch |-> "main"]

DestBranch == GitHubBranch("openshift", "api")
RebaseBranch == GitHubBranch("rebasebot", "fork")

GitHubAppCredentials(app_id, app_key, github_branch) ==
    [app_id |-> app_id, app_key |-> app_key, github_branch |-> github_branch]

\* variant: an "is not None" test in place of truthiness
TruthyInt_is_not_none(o) == o # None

\* Python truthiness of an Optional[int], Optional[bytes] / Optional[str], Optional[object]
TruthyInt(o) == o # None /\ o[1] # 0
TruthyStr(o) == o # None /\ o[1] # ""
TruthyObj(o) == o # None

NoError == [kind |-> "", owner |-> "", repo |-> ""]
\* op: the operation; handle / token: the value returned; err: the exception raised;
\* cause: the API outcome behind the exception; raised: the exception the API call raised;
\* lookups / mints: API calls the operation made
NoResult == [op |-> "", handle |-> None, token |-> None, err |-> NoError, cause |-> "",
             raised |-> NoError, lookups |-> 0, mints |-> 0]


\* ---------------------------------------------------------------- constructor
IncompleteCredentials == "ValueError: Credentials for both, cloning and pushing app should be provided"

NoArgs == [app_id |-> None, app_key |-> None, dest_branch |-> None,
           cloner_id |-> None, cloner_key |-> None, rebase_branch |-> None,
           user_auth |-> FALSE, user_token |-> None]

\* every combination of keyword arguments tried on the constructor
CtorArgs ==
    [app_id : {None, Some(0), Some(101)}, app_key : {None, Some(""), Some("app.pem")},
     dest_branch : {None, Some(DestBranch)},
     cloner_id : {None, Some(0), Some(202)}, cloner_key : {None, Some(""), Some("cloner.pem")},
     rebase_branch : {None, Some(RebaseBranch)},
     user_auth : BOOLEAN, user_token : {None, Some("ghp_user")}]

SixFields(a) == <<a.app_id, a.app_key, a.dest_branch, a.cloner_id, a.cloner_key, a.rebase_branch>>

\* all((app_id, app_key, dest_branch, cloner_id, cloner_key, rebase_branch))
AllCredentials(a) ==
    /\ TruthyInt(a.app_id) /\ TruthyStr(a.app_key) /\ TruthyObj(a.dest_branch)
    /\ TruthyInt(a.cloner_id) /\ TruthyStr(a.cloner_key) /\ TruthyObj(a.rebase_branch)

\* the arguments the provider is run with: App credentials complete or absent
RunArgs ==
    {a \in CtorArgs : AllCredentials(a) \/ \A i \in 1 .. 6 : SixFields(a)[i] = None}

\* GithubAppProvider.__init__
Construct(a) ==
    /\ phase = "start"
    /\ args' = a
    /\ IF ~a.user_auth /\ ~AllCredentials(a)
       THEN /\ phase' = "failed"
            /\ ctor_err' = IncompleteCredentials
            /\ UNCHANGED <<provider, tokens>>
       ELSE /\ phase' = "ready"
            /\ ctor_err' = ""
            /\ user_auth' = a.user_auth
            /\ user_token' = a.user_token
            /\ _app_token' = None
            /\ _cloner_token' = None
            /\ IF ~a.user_auth
               THEN /\ _app_credentials' =
                          Some(GitHubAppCredentials(a.app_id[1], a.app_key[1], a.dest_branch[1]))
                    /\ _cloner_app_credentials' =
                          Some(GitHubAppCredentials(a.cloner_id[1], a.cloner_key[1], a.rebase_branch[1]))
               ELSE /\ _app_credentials' = None
                    /\ _cloner_app_credentials' = None
    /\ UNCHANGED <<parser, build, cache, lock, pc, acc, locals, result, counters, returned, hits,
                   last_minted, ncalls>>

\* ---------------------------------------------------------------- token getters
\* variant: the user_auth branch left out
get_app_token_no_user_branch == _app_token

\* GithubAppProvider.get_app_token
get_app_token == IF user_auth THEN user_token ELSE _app_token

\* variant: the primary identity's token field returned
get_cloner_token_primary_field == IF user_auth THEN user_token ELSE _app_token

\* GithubAppProvider.get_cloner_token
get_cloner_token == IF user_auth THEN user_token ELSE _cloner_token

AllIdle == \A u \in Threads : pc[u] = "idle"

\* a thread may enter the provider: any time when callers overlap, else one call at a time
MayEnter(t) == phase = "ready" /\ pc[t] = "idle" /\ (overlap \/ AllIdle)

\* a thread calls get_app_token() or get_cloner_token()
GetToken(t, g) ==
    /\ MayEnter(t)
    /\ result' = [NoResult EXCEPT !.op = g,
                                  !.token = IF g = "get_app_token" THEN get_app_token
                                            ELSE get_cloner_token]
    /\ UNCHANGED <<parser, build, ctor, provider, tokens, cache, lock, pc, acc, locals, counters,
                   returned, hits, last_minted, ncalls>>


\* ---------------------------------------------------------------- client accessors
InstallationIds == {71, 72}

\* variant: a plain property, nothing is ever found in the cache
CacheGet_property(s) == None

\* cached_property: cache.get(self.attrname, _NOT_FOUND)
CacheGet(s) == cache[s]

\* variant: the computed value is returned but not stored
CacheSet_dropped(s, val) == cache

\* cached_property: cache[self.attrname] = val
CacheSet(s, val) == [cache EXCEPT ![s] = Some(val)]

\* variant: both accessors log in with the primary identity
CredentialsOf_primary(s) == _app_credentials

\* the credentials each accessor passes to _github_login_app
CredentialsOf(s) == IF s = "github_app" THEN _app_credentials ELSE _cloner_app_credentials

\* variant: each accessor assigns the other identity's token field
AssignToken_swapped(s, token) ==
    IF s = "github_app" THEN <<_app_token, token>> ELSE <<token, _cloner_token>>

\* the token field each accessor assigns: self._app_token = token / self._cloner_token = token
AssignToken(s, token) ==
    IF s = "github_app" THEN <<token, _cloner_token>> ELSE <<_app_token, token>>

\* variant: one shared instance per token instead of a new one per call
Github_shared(token) == [id |-> 1, token |-> token]

\* Github(auth=Auth.Token(token)): a new instance, told apart by its id
Github(token) == [id |-> nhandles + 1, token |-> token]

\* variant: the message names the repository without its owner
AppNotInstalled_name_only(gh_branch) ==
    [kind |-> "AppNotInstalled", owner |-> gh_branch.name, repo |-> gh_branch.name]

\* the error raised when the installation lookup raises UnknownObjectException
AppNotInstalled(gh_branch) ==
    [kind |-> "AppNotInstalled", owner |-> gh_branch.ns,
     repo |-> gh_branch.ns \o "/" \o gh_branch.name]

\* github.UnknownObjectException: the API answered 404
UnknownObjectException == [kind |-> "UnknownObjectException", owner |-> "", repo |-> ""]

\* any other exception of the API client
TransportError == [kind |-> "GithubException", owner |-> "", repo |-> ""]

\* an exception of the HTTP layer under the API client
ConnectionError == [kind |-> "ConnectionError", owner |-> "", repo |-> ""]

\* what gi.get_repo_installation can raise, and what gi.get_access_token can raise
LookupErrors == {UnknownObjectException, TransportError, ConnectionError}
MintErrors == {TransportError, ConnectionError}

\* variant: the try block catches every exception
except_UnknownObjectException_any(err, gh_branch) == AppNotInstalled(gh_branch)

\* try: ... except UnknownObjectException as err: raise builtins.Exception(msg) from err
except_UnknownObjectException(err, gh_branch) ==
    IF err = UnknownObjectException THEN AppNotInstalled(gh_branch) ELSE err

ClearLocals(t) ==
    /\ credentials' = [credentials EXCEPT ![t] = None]
    /\ installation' = [installation EXCEPT ![t] = None]
    /\ access_token' = [access_token EXCEPT ![t] = None]
    /\ mint_id' = [mint_id EXCEPT ![t] = None]
    /\ gh_app' = [gh_app EXCEPT ![t] = None]
    /\ call_lookups' = [call_lookups EXCEPT ![t] = 0]
    /\ call_mints' = [call_mints EXCEPT ![t] = 0]

Release(t, s) == lock' = [lock EXCEPT ![s] = IF @ = t THEN 0 ELSE @]

\* the accessor call of thread t returns handle h
Return(t, s, h) ==
    /\ result' = [NoResult EXCEPT !.op = s, !.handle = Some(h),
                                  !.lookups = call_lookups[t], !.mints = call_mints[t]]
    /\ returned' = [returned EXCEPT ![s] = @ \cup {h}]
    /\ pc' = [pc EXCEPT ![t] = "idle"]
    /\ acc' = [acc EXCEPT ![t] = ""]

\* the exchange of thread t raises e out of the accessor (leaving "with self.lock"),
\* after nl lookups and nm mints, the API call having raised api
Raise(t, e, api, cause, nl, nm) ==
    /\ result' = [NoResult EXCEPT !.op = acc[t], !.err = e, !.cause = cause, !.raised = api,
                                  !.lookups = nl, !.mints = nm]
    /\ failed' = [failed EXCEPT ![acc[t]] = @ + 1]
    /\ pc' = [pc EXCEPT ![t] = "idle"]
    /\ acc' = [acc EXCEPT ![t] = ""]
    /\ Release(t, acc[t])
    /\ ClearLocals(t)

\* provider.github_app / provider.github_cloner_app: cached_property.__get__, first cache read
Get(t, s) ==
    /\ MayEnter(t)
    /\ ncalls < MaxCalls
    /\ ncalls' = ncalls + 1
    /\ IF CacheGet(s) # None
       THEN /\ Return(t, s, CacheGet(s)[1])
            /\ hits' = [hits EXCEPT ![s] = @ + 1]
       ELSE /\ pc' = [pc EXCEPT ![t] = IF has_lock THEN "lock" ELSE "func"]
            /\ acc' = [acc EXCEPT ![t] = s]
            /\ UNCHANGED <<result, returned, hits>>
    /\ UNCHANGED <<parser, build, ctor, provider, tokens, cache, lock, locals, counters, last_minted>>

\* cached_property.__get__ with a lock: "with self.lock:" and the second cache read
Acquire(t) ==
    /\ pc[t] = "lock"
    /\ lock[acc[t]] = 0
    /\ IF CacheGet(acc[t]) # None
       THEN /\ Return(t, acc[t], CacheGet(acc[t])[1])
            /\ hits' = [hits EXCEPT ![acc[t]] = @ + 1]
            /\ UNCHANGED lock
       ELSE /\ lock' = [lock EXCEPT ![acc[t]] = t]
            /\ pc' = [pc EXCEPT ![t] = "func"]
            /\ UNCHANGED <<result, returned, hits, acc>>
    /\ UNCHANGED <<parser, build, ctor, provider, tokens, cache, locals, counters, last_minted, ncalls>>

\* entry of github_app / github_cloner_app: user mode builds the handle, app mode starts the login
Func(t) ==
    /\ pc[t] = "func"
    /\ IF user_auth
       THEN /\ gh_app' = [gh_app EXCEPT ![t] = Some(Github(user_token))]
            /\ nhandles' = nhandles + 1
            /\ pc' = [pc EXCEPT ![t] = "store"]
            /\ UNCHANGED credentials
       ELSE /\ credentials' = [credentials EXCEPT ![t] = CredentialsOf(acc[t])]
            /\ pc' = [pc EXCEPT ![t] = "lookup"]
            /\ UNCHANGED <<gh_app, nhandles>>
    /\ UNCHANGED <<parser, build, ctor, provider, tokens, cache, lock, acc, installation, access_token,
                   mint_id, call_lookups, call_mints, result, lookups, mints, failed, exchanged, ntokens,
                   returned, hits, last_minted, ncalls>>

\* _github_login_app: gi.get_repo_installation(gh_branch.ns, gh_branch.name)
Lookup(t) ==
    /\ pc[t] = "lookup"
    /\ lookups' = [lookups EXCEPT ![acc[t]] = @ + 1]
    /\ \/ /\ \E i \in InstallationIds : installation' = [installation EXCEPT ![t] = Some(i)]
          /\ call_lookups' = [call_lookups EXCEPT ![t] = @ + 1]
          /\ pc' = [pc EXCEPT ![t] = "mint"]
          /\ UNCHANGED <<result, failed, lock, acc, credentials, access_token, mint_id, gh_app,
                         call_mints>>
       \/ \E err \in LookupErrors :
             Raise(t, except_UnknownObjectException(err, credentials[t][1].github_branch), err,
                   IF err = UnknownObjectException THEN "not_found" ELSE "lookup_error",
                   call_lookups[t] + 1, call_mints[t])
    /\ UNCHANGED <<parser, build, ctor, provider, tokens, cache, mints, exchanged, nhandles, ntokens,
                   returned, hits, last_minted, ncalls>>

\* variant: the token is requested for the App's own id
InstallationArgument_app_id(t) == Some(credentials[t][1].app_id)

\* the argument of gi.get_access_token: installation.id
InstallationArgument(t) == installation[t]

\* _github_login_app: gi.get_access_token(installation.id)
Mint(t) ==
    /\ pc[t] = "mint"
    /\ mints' = [mints EXCEPT ![acc[t]] = @ + 1]
    /\ \/ /\ mint_id' = [mint_id EXCEPT ![t] = InstallationArgument(t)]
          /\ access_token' = [access_token EXCEPT ![t] = Some("ghs_" \o ToString(ntokens + 1))]
          /\ ntokens' = ntokens + 1
          /\ call_mints' = [call_mints EXCEPT ![t] = @ + 1]
          /\ pc' = [pc EXCEPT ![t] = "build"]
          /\ UNCHANGED <<result, failed, lock, acc, credentials, installation, gh_app, call_lookups>>
       \/ /\ \E err \in MintErrors :
                Raise(t, err, err, "mint_error", call_lookups[t], call_mints[t] + 1)
          /\ UNCHANGED ntokens
    /\ UNCHANGED <<parser, build, ctor, provider, tokens, cache, lookups, exchanged, nhandles,
                   returned, hits, last_minted, ncalls>>

\* _github_login_app: Github(auth=Auth.Token(access_token.token)); return gh_app, access_token.token
Build(t) ==
    /\ pc[t] = "build"
    /\ gh_app' = [gh_app EXCEPT ![t] = Some(Github(access_token[t]))]
    /\ nhandles' = nhandles + 1
    /\ pc' = [pc EXCEPT ![t] = "settoken"]
    /\ UNCHANGED <<parser, build, ctor, provider, tokens, cache, lock, acc, credentials, installation,
                   access_token, mint_id, call_lookups, call_mints, result, lookups, mints, failed,
                   exchanged, ntokens, returned, hits, last_minted, ncalls>>

\* github_app: self._app_token = token / github_cloner_app: self._cloner_token = token
SetToken(t) ==
    /\ pc[t] = "settoken"
    /\ _app_token' = AssignToken(acc[t], access_token[t])[1]
    /\ _cloner_token' = AssignToken(acc[t], access_token[t])[2]
    /\ pc' = [pc EXCEPT ![t] = "store"]
    /\ UNCHANGED <<parser, build, ctor, provider, cache, lock, acc, locals, result, counters, returned,
                   hits, last_minted, ncalls>>

\* cached_property.__get__: store the value the getter returned, leave the lock, return it
Store(t) ==
    /\ pc[t] = "store"
    /\ cache' = CacheSet(acc[t], gh_app[t][1])
    /\ Return(t, acc[t], gh_app[t][1])
    /\ Release(t, acc[t])
    /\ IF user_auth
       THEN UNCHANGED <<exchanged, last_minted>>
       ELSE /\ exchanged' = [exchanged EXCEPT ![acc[t]] = @ + 1]
            /\ last_minted' = [last_minted EXCEPT ![acc[t]] = access_token[t]]
    /\ ClearLocals(t)
    /\ UNCHANGED <<parser, build, ctor, provider, tokens, lookups, mints, failed, nhandles, ntokens,
                   hits, ncalls>>

\* ---------------------------------------------------------------- parse_github_branch
\* Strings are sequences of one-character strings.
UnsupportedHost == "ValueError: Only GitHub URLs are supported right now"
InvalidFormat ==
    "ValueError: GitHub branch value must be in the form <user or organization>/<repo>:<branch>"

NotParsed == [status |-> "none", err |-> "", url |-> <<>>, ns |-> <<>>, name |-> <<>>, branch |-> <<>>]

\* "https://github.com/"
GithubPrefix ==
    <<"h", "t", "t", "p", "s", ":", "/", "/", "g", "i", "t", "h", "u", "b", ".", "c", "o", "m", "/">>

\* "github.com"
GithubHost == SubSeq(GithubPrefix, 9, 18)

\* urllib.parse.scheme_chars, as far as the inputs use them
SchemeChars == {"a", "b", "c", "g", "h", "i", "l", "m", "o", "p", "s", "t", "u", ".", "+", "-"}
Letters == SchemeChars \ {".", "+", "-"}

\* characters urlsplit removes from the URL before splitting it
UnsafeChars == {"\t", "\r", "\n"}

\* str.find(c, start): the first position >= start holding c, 0 when there is none (1-based)
Find(str, c, start) ==
    LET found == {i \in start .. Len(str) : str[i] = c}
    IN IF found = {} THEN 0 ELSE CHOOSE i \in found : \A j \in found : i <= j

\* str[first - 1 : last], clipped to the string as Python slices are (1-based, inclusive)
Slice(str, first, last) ==
    LET hi == IF last < Len(str) THEN last ELSE Len(str)
    IN IF first > hi THEN <<>> ELSE SubSeq(str, first, hi)

\* str[start - 1 :]
From(str, start) == Slice(str, start, Len(str))

\* url.lstrip(_WHATWG_C0_CONTROL_OR_SPACE)
LStrip(str) ==
    LET keep == {i \in 1 .. Len(str) : str[i] \notin UnsafeChars \cup {" "}}
    IN IF keep = {} THEN <<>> ELSE From(str, CHOOSE i \in keep : \A j \in keep : i <= j)

\* url.replace(b, "") for each b in _UNSAFE_URL_BYTES_TO_REMOVE
RemoveUnsafe(str) == SelectSeq(str, LAMBDA c : c \notin UnsafeChars)

\* _splitnetloc(url, 2)[0]: from the third character up to the first "/" ("?" and "#" do not occur)
SplitNetloc(url) ==
    LET delim == Find(url, "/", 3)
    IN IF delim = 0 THEN From(url, 3) ELSE Slice(url, 3, delim - 1)

\* urlparse(repository_string): the scheme and netloc components
urlparse(str) ==
    LET url == RemoveUnsafe(LStrip(str))
        i == Find(url, ":", 1)
        has_scheme == /\ i > 1
                      /\ url[1] \in Letters
                      /\ \A k \in 1 .. i - 1 : url[k] \in SchemeChars
        scheme == IF has_scheme THEN Slice(url, 1, i - 1) ELSE <<>>
        rest == IF has_scheme THEN From(url, i + 1) ELSE url
    IN [scheme |-> scheme,
        netloc |-> IF Slice(rest, 1, 2) = <<"/", "/">> THEN SplitNetloc(rest) ELSE <<>>]

\* variant: the prefix is left in place
removeprefix_kept(str, prefix) == str

\* str.removeprefix(prefix)
removeprefix(str, prefix) ==
    IF Len(str) >= Len(prefix) /\ Slice(str, 1, Len(prefix)) = prefix
    THEN From(str, Len(prefix) + 1) ELSE str

\* variant: a greedy name group, ending at the last ":" of the string
NameEnd_last(str, slash) ==
    LET found == {i \in slash + 1 .. Len(str) : str[i] = ":"}
    IN IF found = {} THEN 0 ELSE CHOOSE i \in found : \A j \in found : i >= j

\* the position of the ":" that ends the repository name: the first one after the first "/"
NameEnd(str, slash) == Find(str, ":", slash + 1)

\* "(?P<branch>.*)$": "." matches no newline and "$" also matches before one final newline
BranchGroup(rest) ==
    IF Find(rest, "\n", 1) = 0 THEN [matched |-> TRUE, branch |-> rest]
    ELSE IF Find(rest, "\n", 1) = Len(rest)
         THEN [matched |-> TRUE, branch |-> Slice(rest, 1, Len(rest) - 1)]
         ELSE [matched |-> FALSE, branch |-> <<>>]

\* github_regex.match: ^(?P<organization>[^/]+)/(?P<name>[^:]+):(?P<branch>.*)$
github_regex(str) ==
    LET slash == Find(str, "/", 1)
        colon == IF slash = 0 THEN 0 ELSE NameEnd(str, slash)
        tail == IF colon = 0 THEN [matched |-> FALSE, branch |-> <<>>]
                ELSE BranchGroup(From(str, colon + 1))
    IN IF slash > 1 /\ colon > slash + 1 /\ tail.matched
       THEN [matched |-> TRUE, organization |-> Slice(str, 1, slash - 1),
             name |-> Slice(str, slash + 1, colon - 1), branch |-> tail.branch]
       ELSE [matched |-> FALSE, organization |-> <<>>, name |-> <<>>, branch |-> <<>>]

\* variant: the host is tested whether or not the locator has a scheme
RejectedHost_any(url) == url.netloc # GithubHost

\* the test that raises "Only GitHub URLs are supported right now"
RejectedHost(url) == url.scheme # <<>> /\ url.netloc # GithubHost

\* parse_github_branch(repository_string)
parse_github_branch(str) ==
    LET url == urlparse(str)
        match == github_regex(removeprefix(str, GithubPrefix))
    IN IF RejectedHost(url)
       THEN [NotParsed EXCEPT !.status = "error", !.err = UnsupportedHost]
       ELSE IF ~match.matched
            THEN [NotParsed EXCEPT !.status = "error", !.err = InvalidFormat]
            ELSE [status |-> "ok", err |-> "",
                  url |-> GithubPrefix \o match.organization \o <<"/">> \o match.name,
                  ns |-> match.organization, name |-> match.name, branch |-> match.branch]

\* the characters the locators tried are made of
Alphabet == {"a", "/", ":", "\n"}

RECURSIVE StringsUpTo(_)
\* every string over Alphabet of length at most n
StringsUpTo(n) ==
    IF n = 0 THEN {<<>>}
    ELSE LET shorter == StringsUpTo(n - 1)
         IN shorter \cup {Append(str, c) : str \in {x \in shorter : Len(x) = n - 1}, c \in Alphabet}

\* "https://github.com/", "http://github.com/", "https://gitlab.com/", "gitlab.com/" or nothing
Prefixes ==
    {<<>>, GithubPrefix,
     Slice(GithubPrefix, 1, 4) \o From(GithubPrefix, 6),
     Slice(GithubPrefix, 1, 11) \o <<"l", "a", "b">> \o From(GithubPrefix, 15),
     Slice(GithubPrefix, 9, 11) \o <<"l", "a", "b">> \o From(GithubPrefix, 15)}

\* the locators tried: a prefix followed by a short string
Locators == {p \o body : p \in Prefixes, body \in StringsUpTo(MaxLen)}

\* a caller parses one locator
Parse(str) ==
    /\ parse_result = NotParsed
    /\ repository_string' = str
    /\ parse_result' = parse_github_branch(str)
    /\ UNCHANGED <<build, ctor, provider, tokens, cache, lock, pc, acc, locals, result, counters,
                   returned, hits, last_minted, ncalls>>

\* ---------------------------------------------------------------- specifications
InitProvider ==
    /\ has_lock \in BOOLEAN
    /\ phase = "start" /\ args = NoArgs /\ ctor_err = ""
    /\ user_auth = FALSE /\ user_token = None
    /\ _app_credentials = None /\ _cloner_app_credentials = None
    /\ _app_token = None /\ _cloner_token = None
    /\ cache = [s \in Slots |-> None]
    /\ lock = [s \in Slots |-> 0]
    /\ pc = [t \in Threads |-> "idle"]
    /\ acc = [t \in Threads |-> ""]
    /\ credentials = [t \in Threads |-> None]
    /\ installation = [t \in Threads |-> None]
    /\ access_token = [t \in Threads |-> None]
    /\ mint_id = [t \in Threads |-> None]
    /\ gh_app = [t \in Threads |-> None]
    /\ call_lookups = [t \in Threads |-> 0]
    /\ call_mints = [t \in Threads |-> 0]
    /\ result = NoResult
    /\ lookups = [s \in Slots |-> 0]
    /\ mints = [s \in Slots |-> 0]
    /\ failed = [s \in Slots |-> 0]
    /\ exchanged = [s \in Slots |-> 0]
    /\ returned = [s \in Slots |-> {}]
    /\ hits = [s \in Slots |-> 0]
    /\ last_minted = [s \in Slots |-> None]
    /\ nhandles = 0 /\ ntokens = 0 /\ ncalls = 0
    /\ repository_string = <<>> /\ parse_result = NotParsed

\* one call at a time
Init == InitProvider /\ overlap = FALSE

\* calls of several threads interleave
InitConc == InitProvider /\ overlap = TRUE

Next ==
    \/ \E a \in RunArgs : Construct(a)
    \/ \E t \in Threads, g \in Getters : GetToken(t, g)
    \/ \E t \in Threads, s \in Slots : Get(t, s)
    \/ \E t \in Threads : Acquire(t)
    \/ \E t \in Threads : Func(t)
    \/ \E t \in Threads : Lookup(t)
    \/ \E t \in Threads : Mint(t)
    \/ \E t \in Threads : Build(t)
    \/ \E t \in Threads : SetToken(t)
    \/ \E t \in Threads : Store(t)

Spec == Init /\ [][Next]_vars

SpecConc == InitConc /\ [][Next]_vars

\* the constructor alone, over every combination of arguments
NextCtor == \E a \in CtorArgs : Construct(a)

SpecCtor == Init /\ [][NextCtor]_vars

\* parse_github_branch alone, over every locator
NextParse == parse_result = NotParsed /\ \E str \in Locators : Parse(str)

SpecParse == Init /\ [][NextParse]_vars


\* ---------------------------------------------------------------- properties
AppMode == phase = "ready" /\ ~user_auth
UserMode == phase = "ready" /\ user_auth

\* the token field and the token getter that belong to an accessor's slot
TokenField(s) == IF s = "github_app" THEN _app_token ELSE _cloner_token
TokenGetter(s) == IF s = "github_app" THEN get_app_token ELSE get_cloner_token

\* the repository the constructor was given for an accessor's identity
ConfiguredBranch(s) == IF s = "github_app" THEN args.dest_branch[1] ELSE args.rebase_branch[1]

\* C1: in app mode, once an accessor has returned a handle, every later call of that
\* accessor returns the same handle (the set of handles it has returned stops growing)
\* and makes no further installation lookup and no further token mint.
C1_CachedHandle ==
    [][AppMode =>
         \A s \in Slots :
            returned[s] # {} =>
               /\ returned'[s] = returned[s]
               /\ lookups'[s] = lookups[s]
               /\ mints'[s] = mints[s]]_vars

\* an app-mode accessor has answered a call from its cache after its exchange
C1_Witness ==
    AppMode /\ \E s \in Slots : hits[s] >= 1 /\ exchanged[s] = 1 /\ Cardinality(returned[s]) = 1

\* C2: when threads call one accessor of an app-mode provider concurrently while its slot
\* is Empty, at most one installation-token exchange is started for that slot.  Exchanges
\* that follow a failed one are left aside, so a second exchange counted here was started
\* by a caller that overlapped the first one.
C2_AtMostOneExchange ==
    AppMode => \A s \in Slots : failed[s] = 0 => lookups[s] <= 1

\* C3: in app mode, when the installation lookup reports "not found", the accessor call
\* fails with the AppNotInstalled error naming the configured owner and owner/repo of that
\* accessor's identity, the call made no token mint, and afterwards the slot is Empty and the
\* slot's token getter returns unset.
C3_NotInstalled ==
    (AppMode /\ AllIdle /\ result.cause = "not_found") =>
        /\ result.err.kind = "AppNotInstalled"
        /\ result.err.owner = ConfiguredBranch(result.op).ns
        /\ result.err.repo = ConfiguredBranch(result.op).ns \o "/" \o ConfiguredBranch(result.op).name
        /\ result.lookups = 1
        /\ result.mints = 0
        /\ result.handle = None
        /\ cache[result.op] = None
        /\ TokenGetter(result.op) = None

\* the cloner accessor has just failed on a "not found" lookup, the primary one being resolved
C3_Witness ==
    /\ AppMode /\ AllIdle
    /\ result.cause = "not_found" /\ result.op = "github_cloner_app"
    /\ cache["github_app"] # None


\* C4 as stated: in app mode the installation-token exchange is performed at most once per
\* identity for the lifetime of the provider, a failed exchange included.
C4_ExchangeAtMostOnce ==
    AppMode => \A s \in Slots : lookups[s] <= 1

\* C4 amended: in app mode, over any sequence of accessor calls, the exchange completes at
\* most once per identity, a call makes at most one lookup and at most one mint (a failed
\* exchange is not retried inside the call), and an exchange is started again only after every
\* earlier exchange of that identity has failed.
C4_ExchangeOncePerSuccess ==
    AppMode =>
        /\ \A s \in Slots :
              /\ exchanged[s] <= 1
              /\ lookups[s] <= failed[s] + 1
              /\ mints[s] <= lookups[s]
              /\ exchanged[s] = 1 => lookups[s] = failed[s] + 1
        /\ \A t \in Threads : call_lookups[t] <= 1 /\ call_mints[t] <= 1
        /\ result.lookups <= 1 /\ result.mints <= 1

\* an identity whose first exchange failed was exchanged by a later call, and a call after
\* that was answered from the cache
C4_Witness ==
    AppMode /\ \E s \in Slots : failed[s] >= 1 /\ exchanged[s] = 1 /\ hits[s] >= 1

\* C5: in user-token mode both token getters return exactly the user token given to the
\* constructor, in every state and whatever accessor calls were made, and no installation
\* lookup or token mint is ever performed, also when App credentials were passed.
C5_UserTokenOnly ==
    UserMode =>
        /\ get_app_token = args.user_token
        /\ get_cloner_token = args.user_token
        /\ result.op \in Getters => result.token = args.user_token
        /\ \A s \in Slots : lookups[s] = 0 /\ mints[s] = 0
        /\ \A t \in Threads : pc[t] \notin {"lookup", "mint", "build", "settoken"}

\* a user-mode provider built with complete App credentials has resolved both handles and
\* then answered get_cloner_token
C5_Witness ==
    /\ UserMode /\ AllCredentials(args) /\ args.user_token # None
    /\ \A s \in Slots : cache[s] # None
    /\ result.op = "get_cloner_token"

\* C6: in app mode, over any sequence of operations, a Populated slot stays Populated and
\* the handle and the token stored in it are never replaced.
C6_WriteOnce ==
    [][AppMode =>
         \A s \in Slots :
            cache[s] # None =>
               /\ cache'[s] = cache[s]
               /\ (IF s = "github_app" THEN _app_token' ELSE _cloner_token') = TokenField(s)]_vars

\* both slots are Populated and every allowed call has been made
C6_Witness ==
    AppMode /\ AllIdle /\ ncalls = MaxCalls /\ \A s \in Slots : cache[s] # None /\ TokenField(s) # None

\* C7: in app mode a token getter, called between accessor calls, returns unset as long as
\* no call of the matching client accessor has completed successfully, and the token minted
\* by that call afterwards; a token getter call performs no exchange and populates no slot.
C7_TokenFollowsClient ==
    /\ [](AppMode /\ AllIdle =>
            \A s \in Slots :
               /\ exchanged[s] = 0 => TokenGetter(s) = None
               /\ exchanged[s] >= 1 => TokenGetter(s) = last_minted[s] /\ TokenGetter(s) # None)
    /\ [](AppMode /\ AllIdle /\ result.op \in Getters =>
            result.token = (IF result.op = "get_app_token" THEN TokenGetter("github_app")
                            ELSE TokenGetter("github_cloner_app")))
    /\ [][(\E t \in Threads, g \in Getters : GetToken(t, g)) =>
             UNCHANGED <<cache, tokens, lookups, mints, exchanged, pc>>]_vars

\* get_app_token has returned the minted token while the cloner slot is still Empty
C7_Witness ==
    /\ AppMode /\ AllIdle
    /\ result.op = "get_app_token" /\ result.token # None
    /\ exchanged["github_cloner_app"] = 0 /\ get_cloner_token = None

Missing(a) == \E i \in 1 .. 6 : SixFields(a)[i] = None

\* a field that is missing, a zero id or an empty key
Unusable(a) ==
    \/ Missing(a)
    \/ a.app_id = Some(0) \/ a.cloner_id = Some(0)
    \/ a.app_key = Some("") \/ a.cloner_key = Some("")

NoProvider ==
    /\ phase = "failed" /\ ctor_err = IncompleteCredentials
    /\ _app_credentials = None /\ _cloner_app_credentials = None

FreshAppProvider ==
    /\ phase = "ready" /\ ctor_err = "" /\ ~user_auth
    /\ _app_credentials = Some(GitHubAppCredentials(args.app_id[1], args.app_key[1], args.dest_branch[1]))
    /\ _cloner_app_credentials =
          Some(GitHubAppCredentials(args.cloner_id[1], args.cloner_key[1], args.rebase_branch[1]))
    /\ \A s \in Slots : cache[s] = None
    /\ _app_token = None /\ _cloner_token = None

\* C8 as stated: with user_auth false, construction fails with IncompleteCredentials and
\* yields no provider when one of the six fields is missing, and succeeds when all six are
\* supplied, the provider starting in app mode with both slots Empty and both tokens unset.
C8_SixSupplied ==
    (phase # "start" /\ ~args.user_auth) =>
        IF Missing(args) THEN NoProvider ELSE FreshAppProvider

\* C8 amended: with user_auth false, construction fails with IncompleteCredentials and
\* yields no provider when one of the six fields is missing, is a zero id or is an empty key;
\* when all six are supplied with non-zero ids and non-empty keys it succeeds, the provider
\* starting in app mode with both slots Empty and both tokens unset.
C8_SixTruthy ==
    (phase # "start" /\ ~args.user_auth) =>
        IF Unusable(args) THEN NoProvider ELSE FreshAppProvider

\* construction was refused with exactly five of the six fields supplied
C8_Witness ==
    /\ phase = "failed" /\ ~args.user_auth
    /\ Cardinality({i \in 1 .. 6 : SixFields(args)[i] = None}) = 1

\* C9: no provider exists with user_auth true and an unset user token: in user-token mode
\* the token getters never return unset and every handle carries a set token.
C9_UserTokenRequired ==
    UserMode =>
        /\ user_token # None
        /\ get_app_token # None /\ get_cloner_token # None
        /\ \A s \in Slots : cache[s] # None => cache[s][1].token # None

\* C10: in user-token mode each accessor returns one handle instance, built once from the
\* user token and kept in the accessor's own slot; the two accessors never return the same
\* instance.
C10_TwoUserHandles ==
    UserMode =>
        /\ \A s \in Slots :
              /\ Cardinality(returned[s]) <= 1
              /\ \A h \in returned[s] : h.token = args.user_token /\ cache[s] = Some(h)
              /\ result.op = s /\ result.handle # None => returned[s] = {result.handle[1]}
        /\ returned["github_app"] \cap returned["github_cloner_app"] = {}
        /\ nhandles <= Cardinality(Slots)

\* both accessors have returned a handle and one of them has been called again
C10_Witness ==
    /\ UserMode /\ AllIdle
    /\ \A s \in Slots : returned[s] # {}
    /\ \E s \in Slots : hits[s] >= 1


\* ---------------------------------------------------------------- properties of parse_github_branch
Parsed == parse_result.status # "none"
Accepted == parse_result.status = "ok"

StartsWith(str, prefix) == Len(str) >= Len(prefix) /\ \A k \in 1 .. Len(prefix) : str[k] = prefix[k]
EndsWith(str, suffix) ==
    Len(str) >= Len(suffix) /\ \A k \in 1 .. Len(suffix) : str[Len(str) - Len(suffix) + k] = suffix[k]
Drop(str, n) == [k \in 1 .. Len(str) - n |-> str[k + n]]
Contains(str, c) == \E k \in 1 .. Len(str) : str[k] = c

\* str reads owner "/" repo ":" branch with the "/" at position i and the ":" at position j:
\* a non-empty owner without "/", a non-empty repo without ":"
IsForm(str, i, j) ==
    /\ 1 < i /\ i + 1 < j /\ j <= Len(str)
    /\ str[i] = "/" /\ str[j] = ":"
    /\ \A k \in 1 .. i - 1 : str[k] # "/"
    /\ \A k \in i + 1 .. j - 1 : str[k] # ":"

WellFormed(str) == \E i, j \in 1 .. Len(str) : IsForm(str, i, j)

OwnerOf(str, i) == [k \in 1 .. i - 1 |-> str[k]]
RepoOf(str, i, j) == [k \in 1 .. j - i - 1 |-> str[k + i]]
BranchOf(str, j) == Drop(str, j)

\* an owner without ":" and without whitespace or control characters
PlainOwner(owner) == \A k \in 1 .. Len(owner) : owner[k] \notin {":", " ", "\t", "\r", "\n"}

HttpGithubPrefix == <<"h", "t", "t", "p", ":", "/", "/", "g", "i", "t", "h", "u", "b", ".", "c", "o", "m", "/">>
GitlabPrefix == <<"g", "i", "t", "l", "a", "b", ".", "c", "o", "m", "/">>
HttpsGitlabPrefix == <<"h", "t", "t", "p", "s", ":", "/", "/">> \o GitlabPrefix

\* owner/repo:branch written with letters only around its "/" and ":"
SimpleLocator(str) ==
    \E i, j \in 1 .. Len(str) :
        IsForm(str, i, j) /\ \A k \in (1 .. Len(str)) \ {i, j} : str[k] \in Letters

SameOutcome(r1, r2) ==
    /\ r1.status = r2.status
    /\ r1.status = "ok" =>
          r1.url = r2.url /\ r1.ns = r2.ns /\ r1.name = r2.name /\ r1.branch = r2.branch

\* C11: a locator that names a host other than github.com in front of owner/repo:branch,
\* with or without a scheme (https://gitlab.com/o/r:b, gitlab.com/o/r:b), fails with
\* UnsupportedHost and yields no GitHubBranch.
C11_ForeignHostRejected ==
    (Parsed /\ \E p \in {GitlabPrefix, HttpsGitlabPrefix} :
                  StartsWith(repository_string, p) /\ SimpleLocator(Drop(repository_string, Len(p))))
        => parse_result.status = "error" /\ parse_result.err = UnsupportedHost

\* C12 as stated: for every string s of the form owner/repo:branch, parsing
\* "https://github.com/" + s and parsing s have the same outcome: both fail or both return
\* equal values.
C12_PrefixEquivalent ==
    (Parsed /\ StartsWith(repository_string, GithubPrefix)
            /\ WellFormed(Drop(repository_string, Len(GithubPrefix))))
        => SameOutcome(parse_result, parse_github_branch(Drop(repository_string, Len(GithubPrefix))))

\* C12 amended: the same for every s whose owner segment contains no colon and no whitespace
\* or control character.
C12_PrefixEquivalentPlainOwner ==
    (Parsed /\ StartsWith(repository_string, GithubPrefix)) =>
        LET s == Drop(repository_string, Len(GithubPrefix))
        IN \A i, j \in 1 .. Len(s) :
              IsForm(s, i, j) /\ PlainOwner(OwnerOf(s, i)) =>
                 SameOutcome(parse_result, parse_github_branch(s))

\* "https://github.com/" in front of a well-formed locator with a plain owner was parsed
C12_Witness ==
    /\ Accepted /\ StartsWith(repository_string, GithubPrefix)
    /\ parse_result.ns = <<"a">> /\ parse_result.name = <<"a">> /\ parse_result.branch = <<"a">>

\* C13: a locator carrying a scheme other than https (http://github.com/o/r:b), or a host
\* other than github.com (https://gitlab.com/o/r:b), is rejected with UnsupportedHost before
\* the pattern is tried and yields no GitHubBranch.
C13_OnlyHttpsGithub ==
    (Parsed /\ \E p \in {HttpGithubPrefix, HttpsGitlabPrefix} :
                  StartsWith(repository_string, p) /\ SimpleLocator(Drop(repository_string, Len(p))))
        => parse_result.status = "error" /\ parse_result.err = UnsupportedHost

\* the result parse_github_branch owes to owner/repo:branch cut at positions i and j
SegmentsReturned(str, i, j) ==
    /\ Accepted
    /\ parse_result.ns = OwnerOf(str, i)
    /\ parse_result.name = RepoOf(str, i, j)
    /\ parse_result.branch = BranchOf(str, j)
    /\ parse_result.url = GithubPrefix \o OwnerOf(str, i) \o <<"/">> \o RepoOf(str, i, j)

ReadsAs(rest) ==
    LET tail == parse_result.ns \o <<"/">> \o parse_result.name \o <<":">> \o rest
    IN repository_string = tail \/ repository_string = GithubPrefix \o tail

C16_NonEmptyFields ==
    Accepted =>
        /\ parse_result.url # <<>> /\ parse_result.ns # <<>>
        /\ parse_result.name # <<>> /\ parse_result.branch # <<>>

\* ---------------------------------------------------------------- the exchange, step by step
\* what the running call of thread t holds at each position of _github_login_app
ExchangeGated(t) ==
    /\ call_mints[t] <= call_lookups[t]
    /\ pc[t] = "lookup" =>
          installation[t] = None /\ access_token[t] = None /\ gh_app[t] = None
    /\ pc[t] = "mint" =>
          /\ installation[t] # None /\ call_lookups[t] = 1
          /\ access_token[t] = None /\ gh_app[t] = None
    /\ pc[t] \in {"build", "settoken", "store"} =>
          /\ installation[t] # None /\ call_lookups[t] = 1
          /\ access_token[t] # None /\ call_mints[t] = 1
          /\ mint_id[t] = installation[t]
    /\ pc[t] = "build" => gh_app[t] = None
    /\ pc[t] \in {"settoken", "store"} =>
          gh_app[t] # None /\ gh_app[t][1].token = access_token[t]

\* thread t runs accessor s and has looked up, minted with the id found, and built the handle
\* with the minted token
ExchangeDone(t, s) ==
    /\ acc[t] = s
    /\ installation[t] # None /\ mint_id[t] = installation[t]
    /\ access_token[t] # None
    /\ gh_app[t] # None /\ gh_app[t][1].token = access_token[t]

\* a step that requests a token does so for a call whose lookup succeeded, and a step that
\* writes the token field or the slot writes what a finished exchange produced
WritesGated ==
    \A s \in Slots :
        /\ mints'[s] # mints[s] =>
              \E t \in Threads : acc[t] = s /\ installation[t] # None /\ access_token[t] = None
        /\ (IF s = "github_app" THEN _app_token' ELSE _cloner_token') # TokenField(s) =>
              \E t \in Threads :
                  /\ ExchangeDone(t, s)
                  /\ (IF s = "github_app" THEN _app_token' ELSE _cloner_token') = access_token[t]
        /\ cache'[s] # cache[s] =>
              \E t \in Threads :
                  /\ ExchangeDone(t, s)
                  /\ cache'[s] = gh_app[t]
                  /\ TokenField(s) = access_token[t]

\* C17: within one exchange of an app-mode provider the steps come in a fixed order, each
\* gated on the one before: the token is minted only after a successful installation lookup
\* and for the installation id that lookup returned, the handle is constructed only after a
\* successful mint and with the minted token, and the token field and the slot are written
\* only after all of these, with that token and that handle.
C17_StepsGated ==
    /\ [](AppMode => \A t \in Threads : ExchangeGated(t))
    /\ [][AppMode => WritesGated]_vars

\* a call is about to store its handle, having minted for the installation it looked up
C17_Witness ==
    AppMode /\ \E t \in Threads :
        /\ pc[t] = "store" /\ ExchangeDone(t, acc[t])
        /\ TokenField(acc[t]) = access_token[t]
        /\ cache[acc[t]] = None

\* C18: an exception other than "not found" raised by the installation lookup, or any
\* exception raised by the token mint, reaches the caller as that same exception; the failing
\* call made exactly one lookup and at most one mint, and afterwards the slot is Empty and
\* the token is unset.
C18_TransportErrorPropagated ==
    (AppMode /\ AllIdle /\ result.cause \in {"lookup_error", "mint_error"}) =>
        /\ result.raised \in MintErrors
        /\ result.err = result.raised
        /\ result.handle = None
        /\ result.lookups = 1
        /\ result.mints = (IF result.cause = "mint_error" THEN 1 ELSE 0)
        /\ cache[result.op] = None
        /\ TokenField(result.op) = None
        /\ TokenGetter(result.op) = None

\* the lookup of an accessor has just raised a connection error, after an earlier failure
C18_Witness ==
    /\ AppMode /\ AllIdle
    /\ result.cause = "lookup_error" /\ result.raised = ConnectionError
    /\ failed[result.op] >= 2

\* ---------------------------------------------------------------- the two identities
Other(s) == IF s = "github_app" THEN "github_cloner_app" ELSE "github_app"

\* the identity the constructor was given for each accessor
ConfiguredIdentity(s) ==
    IF s = "github_app"
    THEN GitHubAppCredentials(args.app_id[1], args.app_key[1], args.dest_branch[1])
    ELSE GitHubAppCredentials(args.cloner_id[1], args.cloner_key[1], args.rebase_branch[1])

\* the step is part of a call of accessor s (calls do not overlap)
StepOf(s) ==
    \/ \E t \in Threads : acc[t] = s \/ acc'[t] = s
    \/ ncalls' # ncalls /\ result'.op = s

\* both slots are Populated and no call is running
BothResolved == AppMode /\ AllIdle /\ \A s \in Slots : cache[s] # None

\* C19: the two identities are independent.  A call of one accessor, successful or failed,
\* leaves the other accessor's slot and token unchanged and logs in with its own configured
\* identity only; once both slots are resolved the provider state is the same whichever was
\* resolved first (each slot holds the handle and the token of its own single exchange); and
\* no operation on a constructed provider changes the mode, the user token or an identity.
C19_IdentitiesIndependent ==
    /\ [](AppMode => \A t \in Threads :
              credentials[t] # None => credentials[t] = Some(ConfiguredIdentity(acc[t])))
    /\ [][phase = "ready" =>
             /\ UNCHANGED provider
             /\ \A s \in Slots :
                   StepOf(s) =>
                      /\ cache'[Other(s)] = cache[Other(s)]
                      /\ (IF s = "github_app" THEN _cloner_token' ELSE _app_token')
                            = TokenField(Other(s))]_vars
    /\ [](BothResolved =>
              /\ user_auth = args.user_auth /\ user_token = args.user_token
              /\ _app_credentials = Some(ConfiguredIdentity("github_app"))
              /\ _cloner_app_credentials = Some(ConfiguredIdentity("github_cloner_app"))
              /\ \A s \in Slots :
                    /\ exchanged[s] = 1
                    /\ TokenField(s) = last_minted[s]
                    /\ cache[s][1].token = last_minted[s]
              /\ cache["github_app"][1] # cache["github_cloner_app"][1]
              /\ _app_token # _cloner_token)

\* both slots are resolved, the cloner one first, and a call of the primary accessor failed
\* in between
C19_Witness ==
    /\ BothResolved
    /\ cache["github_cloner_app"][1].id < cache["github_app"][1].id
    /\ failed["github_app"] >= 1

\* C20: in app mode, whenever no accessor call is running, and also after calls of one
\* accessor that overlapped, a slot holds a handle exactly if its token field is set, and the
\* slot's token getter returns the token the cached handle is authenticated with.
C20_HandleTokenConsistent ==
    (AppMode /\ AllIdle) =>
        \A s \in Slots :
            /\ cache[s] # None <=> TokenField(s) # None
            /\ cache[s] # None => TokenGetter(s) = cache[s][1].token

====
